---- MODULE Spec2Model ----
(***************************************************************************)
(* State-machine model of multilspy's Solidity language server wrapper:    *)
(*   - SolidityLanguageServer.setup_runtime_dependencies (the bootstrap    *)
(*     pipeline that makes sure the server's entry-point script exists),   *)
(*   - SolidityLanguageServer.start_server (spawn, initialize handshake,   *)
(*     yield to the caller, shutdown with a deadline, stop),               *)
(*   - publish_diagnostics, the handler of textDocument/publishDiagnostics,*)
(*   - MultilspyConfig.from_dict,                                          *)
(*   - the correlation of responses to requests by the transport.          *)
(* The specifications share the module: SetupSpec and CatalogSpec run the  *)
(* bootstrap on bounded families of descriptors, filesystems and catalogs; *)
(* ServerSpec runs the start_server coroutine against a nondeterministic   *)
(* server process; DiagSpec, ConfigSpec and RpcSpec run the handler, the   *)
(* factory and the transport on bounded inputs.                            *)
(***************************************************************************)
EXTENDS Integers, Sequences, FiniteSets, TLC

VARIABLES
    \* ---- bootstrap (setup_runtime_dependencies) ----
    desc,        \* the dependency descriptor selected for the platform
    env,         \* what the host offers: node, npm, platform id
    fs,          \* the filesystem under static/vscode-solidity
    spc,         \* position inside setup_runtime_dependencies
    extraction,  \* locals extraction_path / server_script_path (a candidate)
    idx,         \* index of the install directory the loop is at
    trace,       \* external steps performed by the current invocation
    result,      \* outcome of the current invocation
    call,        \* number of the current invocation on this filesystem
    prev,        \* outcome of the previous invocation
    entry,       \* snapshot taken when the invocation was entered
    launch,      \* ProcessLaunchInfo.cmd handed to the base class by __init__
    catalog,     \* platformId of each entry of runtime_dependencies.json
    selected,    \* index of the catalog entry bound to `dependency` (0: none)
    cmd,         \* the most recent run_command_with_logging: kind, cwd, exit
    resolvedAt,  \* Len(trace) at the latest resolve_paths() (-1: not yet)
    \* ---- lifecycle (start_server) ----
    pc,          \* position inside the start_server coroutine
    procs,       \* every process spawned so far: id -> "running" | "stopped"
    cur,         \* id of the process of the current start (0: none yet)
    gate,        \* completions_available (TRUE: set)
    serverStarted, \* LanguageServer.server_started of the base class
    handlers,    \* notification methods registered on the handler
    initResp,    \* the initialize response of the current start
    answers,     \* whether the server of the current start answers shutdown
    clock,       \* time units elapsed inside wait_for(shutdown, 5)
    log,         \* events of the current start, in order
    err,         \* error that left start_server in the current start
    starts,      \* number of start_server entries so far
    requests,    \* caller requests issued inside the current start
    \* ---- publish_diagnostics, MultilspyConfig.from_dict, the transport ----
    diag,        \* the publishDiagnostics handler: its position and log lines
    cfg,         \* one call of MultilspyConfig.from_dict: input and outcome
    rpc          \* request/response correlation: ids, waiters, responses

setupVars == <<desc, env, fs, spc, extraction, idx, trace, result, call, prev,
               entry, launch, catalog, selected, cmd, resolvedAt>>
serverVars == <<pc, procs, cur, gate, serverStarted, handlers, initResp,
                answers, clock, log, err, starts, requests>>
sideVars == <<diag, cfg, rpc>>
vars == <<setupVars, serverVars, sideVars>>

----------------------------------------------------------------------------
\* Bounds of the model.
MaxLegacy == 1      \* legacyRelativeExtractionPaths has at most this many entries
MaxCalls == 2       \* invocations of setup_runtime_dependencies on one filesystem
MaxStarts == 2      \* start_server entries on one server object
MaxRequests == 1    \* caller requests issued inside one start
MaxCatalog == 2     \* entries of runtime_dependencies.json
MaxDiags == 7       \* diagnostics carried by one publishDiagnostics notification
MaxStrLen == 3      \* characters of a code_language string
MaxInflight == 3    \* requests in flight at once

----------------------------------------------------------------------------
\* The parts of the state a specification does not run stay as they start:
\* no notification received, from_dict not called, no request sent.
Callers == 1..MaxInflight

NoParams == [dict |-> FALSE, uri |-> FALSE, diagnostics |-> FALSE, n |-> 0]

NoEntry == [has |-> FALSE, code |-> 0]

DiagIdle ==
    [phase |-> "idle", params |-> NoParams, i |-> 0, lines |-> <<>>,
     last |-> NoEntry]

EmptyDict ==
    [code_language |-> [type |-> "absent", chars |-> <<>>],
     trace_lsp_communication |-> "absent",
     start_independent_lsp_process |-> "absent",
     extra |-> FALSE]

NoConfig ==
    [kind |-> "none", code_language |-> <<>>,
     trace_lsp_communication |-> "none",
     start_independent_lsp_process |-> "none"]

CfgIdle == [called |-> FALSE, input |-> EmptyDict, out |-> NoConfig]

NoResponse == [id |-> 0, result |-> 0]

RpcIdle ==
    [nextId |-> 1, pending |-> {}, wire |-> {},
     asked |-> [c \in Callers |-> 0],
     future |-> [c \in Callers |-> NoResponse],
     delivered |-> <<>>]

SideIdle == diag = DiagIdle /\ cfg = CfgIdle /\ rpc = RpcIdle

----------------------------------------------------------------------------
(***************************************************************************)
(* Part 1: setup_runtime_dependencies.                                     *)
(*                                                                         *)
(* Candidate extraction paths are numbered in the order resolve_paths      *)
(* tries them: 1 is relative_extraction_path (the primary), 1 + i is       *)
(* legacyRelativeExtractionPaths[i].  Directories named by npmInstallDirs  *)
(* and compileWorkingDirectory are relative to the extraction path: "."    *)
(* is the extraction directory itself, "sub" a directory below it.         *)
(***************************************************************************)
Cands == 1..(1 + MaxLegacy)
RelDirs == {".", "sub"}
NmStates == {"absent", "empty", "nonempty"}   \* node_modules of a directory
Primary == 1

InstallDirLists == {<<>>, <<".">>, <<"sub">>, <<".", "sub">>, <<"sub", ".">>}

\* The descriptors of runtime_dependencies.json the model runs on.
Descriptors ==
    {d \in [legacy : 0..MaxLegacy,
            npmInstallDirs : InstallDirLists,
            compileCommand : BOOLEAN,
            compileWorkingDirectory : RelDirs] :
        ~d.compileCommand => d.compileWorkingDirectory = "."}

\* What shutil.which and PlatformUtils find on the host.
\* PlatformUtils.get_platform_id().value, and the platformId of a catalog entry.
PlatformIds == {"linux-x64", "osx-arm64", "win-x64"}

\* What shutil.which and PlatformUtils find on the host.
Envs == {[node |-> TRUE,  npm |-> TRUE,  platform |-> "linux-x64"],
         [node |-> FALSE, npm |-> TRUE,  platform |-> "linux-x64"],
         [node |-> TRUE,  npm |-> FALSE, platform |-> "linux-x64"],
         [node |-> FALSE, npm |-> FALSE, platform |-> "linux-x64"],
         [node |-> TRUE,  npm |-> TRUE,  platform |-> "win-x64"]}

\* runtime_dependencies.json as the list of its entries' platformId, in file
\* order.  The fields of the entry bound to `dependency` are desc; the
\* fields of the other entries are never read.
Catalogs == UNION {[1..n -> PlatformIds] : n \in 0..MaxCatalog}

\* The catalog the bootstrap specification runs on.
DefaultCatalog == <<"osx-arm64", "linux-x64">>

\* candidate_relative_paths of resolve_paths: the candidates of a descriptor.
CandidatesOf(d) == 1..(1 + d.legacy)

\* Whether a relative directory is read by the pipeline for this descriptor.
Uses(d, rel) ==
    \/ \E i \in 1..Len(d.npmInstallDirs) : d.npmInstallDirs[i] = rel
    \/ d.compileCommand /\ d.compileWorkingDirectory = rel

\* The tree below one candidate extraction path: the extraction directory,
\* the server script below it, the directory "sub" below it, and the
\* node_modules folder of "." and of "sub".
Trees ==
    {t \in [dir : BOOLEAN,
            script : BOOLEAN,
            sub : BOOLEAN,
            nm : [RelDirs -> NmStates]] :
        /\ t.script => t.dir
        /\ t.sub => t.dir
        /\ t.nm["."] # "absent" => t.dir
        /\ t.nm["sub"] # "absent" => t.sub}

\* Filesystem states: root is static/vscode-solidity, which holds the trees.
FileSystems ==
    {f \in [root : BOOLEAN, tree : [Cands -> Trees]] :
        \A c \in Cands : f.tree[c].dir => f.root}

\* os.path.exists(candidate_server_path)
ScriptExists(f, c) == f.tree[c].script

\* os.path.isdir(os.path.join(extraction_path, rel))
IsDir(f, c, rel) == IF rel = "." THEN f.tree[c].dir ELSE f.tree[c].sub

\* The loop of resolve_paths from candidate i on: the first candidate whose
\* script exists, else the default (primary) paths.
RECURSIVE ResolveFrom(_, _, _)
ResolveFrom(f, d, i) ==
    IF i > 1 + d.legacy THEN Primary
    ELSE IF ScriptExists(f, i) THEN i
    ELSE ResolveFrom(f, d, i + 1)

\* resolve_paths with the candidate list walked from its end: the last
\* candidate whose script exists wins.
RECURSIVE ResolveDownFrom(_, _, _)
ResolveDownFrom(f, d, i) ==
    IF i < 1 THEN Primary
    ELSE IF ScriptExists(f, i) THEN i
    ELSE ResolveDownFrom(f, d, i - 1)

resolve_paths_last_wins(f, d) == ResolveDownFrom(f, d, 1 + d.legacy)

\* resolve_paths(): the candidate whose extraction path and script path are
\* returned.
resolve_paths(f, d) == ResolveFrom(f, d, 1)

\* The candidates whose tree the pipeline can come to read from filesystem f:
\* the one resolve_paths selects, and any candidate when a download precedes
\* the second resolve_paths (no script anywhere, primary directory absent).
\* Scripts and directories are only ever added, and only below the selected
\* candidate or by the download, so the set never grows.
Selectable(f, d) ==
    IF (\A c \in CandidatesOf(d) : ~ScriptExists(f, c)) /\ ~f.tree[Primary].dir
    THEN CandidatesOf(d)
    ELSE {resolve_paths(f, d)}

\* Parts of the filesystem the pipeline never reads start absent: candidates
\* the descriptor does not list, directories it does not name, and the tree
\* below a candidate that cannot be selected.
RelevantTo(f, d) ==
    \A c \in Cands :
        /\ c \notin CandidatesOf(d) => ~f.tree[c].dir
        /\ (~Uses(d, "sub") \/ c \notin Selectable(f, d)) => ~f.tree[c].sub
        /\ \A rel \in RelDirs :
              \/ /\ \E i \in 1..Len(d.npmInstallDirs) : d.npmInstallDirs[i] = rel
                 /\ c \in Selectable(f, d)
              \/ f.tree[c].nm[rel] = "absent"

\* Outcome of an invocation: the returned launch command (its script), or the
\* raised error.  dir and exit are what the error of a failed command holds:
\* the directory named in its message and the exit code in the message of the
\* error it is chained to (`raise RuntimeError(...) from exc`).
NoResult == [kind |-> "none", script |-> 0, err |-> "none", dir |-> "none", exit |-> 0]
Ok(c) == [kind |-> "ok", script |-> c, err |-> "none", dir |-> "none", exit |-> 0]
Error(e) == [kind |-> "error", script |-> 0, err |-> e, dir |-> "none", exit |-> 0]
CommandError(e, rel, code) ==
    [kind |-> "error", script |-> 0, err |-> e, dir |-> rel, exit |-> code]

\* No command has been run by the invocation yet.
NoCmd == [kind |-> "none", cwd |-> "none", exit |-> 0]

\* What an external step leaves in the trace of the invocation.
InstallEvent(rel) == IF rel = "." THEN "install:." ELSE "install:sub"

\* FileUtils.download_and_extract_archive: what the archive holds.  top is the
\* candidate directory it unpacks to (0: a directory that is no candidate).
\* The archive is a source or build tree: it may hold the script and the
\* directory "sub", and holds no node_modules folder.
Archives == [top : {0} \cup Cands, script : BOOLEAN, sub : BOOLEAN]

Extract(f, a) ==
    IF a.top = 0 THEN f
    ELSE [f EXCEPT !.tree[a.top].dir = TRUE,
                   !.tree[a.top].script = @ \/ a.script,
                   !.tree[a.top].sub = @ \/ a.sub]

\* What `npm install` leaves in directory rel of candidate c: exit code 0
\* leaves node_modules populated and may have built the script (a prepare or
\* postinstall script of the package); a non-zero exit code leaves
\* node_modules as it was or partly populated.
NpmOutcomes == [exit : {0, 1, 2}, partial : BOOLEAN, built : BOOLEAN]

AfterNpm(f, c, rel, o) ==
    IF o.exit = 0
    THEN [f EXCEPT !.tree[c].nm[rel] = "nonempty",
                   !.tree[c].script = @ \/ o.built]
    ELSE IF o.partial THEN [f EXCEPT !.tree[c].nm[rel] = "nonempty"] ELSE f

\* What the compile command leaves: exit code 0 may or may not have written
\* the script; a non-zero exit code writes nothing.
CompileOutcomes == [exit : {0, 1}, built : BOOLEAN]

AfterCompile(f, c, o) ==
    IF o.exit = 0 THEN [f EXCEPT !.tree[c].script = @ \/ o.built] ELSE f

\* `raise`: the invocation ends with an error.
Raise(e) ==
    /\ spc' = "failed"
    /\ result' = Error(e)

\* The lookup of npm with its test dropped.
NpmLookupUnchecked(e) == FALSE

\* `npm_path = shutil.which("npm")`, `if npm_path is None:`
NpmMissing(e) == ~e.npm

\* `node_path = shutil.which("node")`, `if node_path is None:`
NodeMissing(e) == ~e.node

\* SolidityLanguageServer.__init__ enters setup_runtime_dependencies, which
\* looks up node and npm on PATH.
SetupBegin ==
    /\ spc = "idle"
    /\ entry' = [installed |-> \E c \in CandidatesOf(desc) : ScriptExists(fs, c),
                 first |-> resolve_paths(fs, desc),
                 fs |-> fs]
    /\ IF NodeMissing(env) THEN Raise("NodeNotFound")
       ELSE IF NpmMissing(env) THEN Raise("NpmNotFound")
       ELSE spc' = "catalog" /\ UNCHANGED result
    /\ UNCHANGED <<desc, env, fs, extraction, idx, trace, call, prev, launch>>
    /\ UNCHANGED <<catalog, selected, cmd, resolvedAt>>
    /\ UNCHANGED <<serverVars, sideVars>>

\* The platform test with only the first catalog entry looked at.
IsSupportedFirstOnly(cat, p) == Len(cat) >= 1 /\ cat[1] = p

\* `platform_id.value not in supported_platforms`, negated.
IsSupported(cat, p) == \E i \in 1..Len(cat) : cat[i] = p

\* next((dep for dep in runtime_dependencies if dep["platformId"] == ...), None)
\* from entry i on: the index of the first entry that matches, 0 for None.
RECURSIVE FindFrom(_, _, _)
FindFrom(cat, p, i) ==
    IF i > Len(cat) THEN 0
    ELSE IF cat[i] = p THEN i
    ELSE FindFrom(cat, p, i + 1)

FindDescriptor(cat, p) == FindFrom(cat, p, 1)

\* The catalog is loaded and the descriptor of the platform looked up.
LoadCatalog ==
    /\ spc = "catalog"
    /\ IF ~IsSupported(catalog, env.platform)
       THEN Raise("UnsupportedPlatform") /\ UNCHANGED selected
       ELSE LET dependency == FindDescriptor(catalog, env.platform) IN
            IF dependency = 0
            THEN Raise("NoRuntimeDependency") /\ UNCHANGED selected
            ELSE selected' = dependency /\ spc' = "paths" /\ UNCHANGED result
    /\ UNCHANGED <<desc, env, fs, extraction, idx, trace, call, prev, entry, launch>>
    /\ UNCHANGED <<catalog, cmd, resolvedAt>>
    /\ UNCHANGED <<serverVars, sideVars>>

\* os.makedirs(solidity_ls_dir, exist_ok=True), then the first resolve_paths().
SetupPaths ==
    /\ spc = "paths"
    /\ fs' = [fs EXCEPT !.root = TRUE]
    /\ extraction' = resolve_paths(fs', desc)
    /\ resolvedAt' = Len(trace)
    /\ spc' = "prepare"
    /\ UNCHANGED <<desc, env, idx, trace, result, call, prev, entry, launch>>
    /\ UNCHANGED <<catalog, selected, cmd>>
    /\ UNCHANGED <<serverVars, sideVars>>

\* The second resolve_paths() left out: the paths of the first one are kept.
resolve_paths_kept(f, d, old) == old

\* `extraction_path, server_script_path = resolve_paths()` after the download
\* branch; old is the candidate the first resolve_paths() returned.
resolve_paths_again(f, d, old) == resolve_paths(f, d)

\* The download condition with the test of the primary directory dropped.
NeedsDownloadAlways(f) == TRUE

\* `if not os.path.exists(primary_extraction_path):`
NeedsDownload(f) == ~f.tree[Primary].dir

\* `if not os.path.exists(server_script_path):` download the archive when the
\* primary extraction directory is absent, then resolve_paths() again.
PrepareInstallation ==
    /\ spc = "prepare"
    /\ IF ScriptExists(fs, extraction)
       THEN /\ spc' = "extraction"
            /\ UNCHANGED <<fs, extraction, trace, result, resolvedAt>>
       ELSE IF NeedsDownload(fs)
       THEN \/ \E a \in Archives :
                 /\ a.top \in {0} \cup CandidatesOf(desc)
                 /\ fs' = Extract(fs, a)
                 /\ trace' = Append(trace, "download")
                 /\ extraction' = resolve_paths_again(fs', desc, extraction)
                 /\ resolvedAt' = Len(trace')
                 /\ spc' = "extraction"
                 /\ UNCHANGED result
            \/ /\ trace' = Append(trace, "download")
               /\ Raise("DownloadFailed")
               /\ UNCHANGED <<fs, extraction, resolvedAt>>
       ELSE /\ extraction' = resolve_paths_again(fs, desc, extraction)
            /\ resolvedAt' = Len(trace)
            /\ spc' = "extraction"
            /\ UNCHANGED <<fs, trace, result>>
    /\ UNCHANGED <<desc, env, idx, call, prev, entry, launch>>
    /\ UNCHANGED <<catalog, selected, cmd>>
    /\ UNCHANGED <<serverVars, sideVars>>

\* `if not os.path.exists(extraction_path): raise FileNotFoundError`
CheckExtraction ==
    /\ spc = "extraction"
    /\ IF ~fs.tree[extraction].dir THEN Raise("MissingExtraction") /\ UNCHANGED idx
       ELSE spc' = "install" /\ idx' = 1 /\ UNCHANGED result
    /\ UNCHANGED <<desc, env, fs, extraction, trace, call, prev, entry, launch>>
    /\ UNCHANGED <<catalog, selected, cmd, resolvedAt>>
    /\ UNCHANGED <<serverVars, sideVars>>

\* The install condition with the node_modules test dropped: every listed
\* directory is installed again.
NeedsInstallAlways(f, c, rel) == TRUE

\* The install condition with only the os.listdir half: an absent
\* node_modules folder is taken for an installed one.
NeedsInstallOnlyIfEmpty(f, c, rel) == f.tree[c].nm[rel] = "empty"

\* `not os.path.exists(node_modules_path) or not os.listdir(node_modules_path)`
NeedsInstall(f, c, rel) == f.tree[c].nm[rel] \in {"absent", "empty"}

\* The install loop walking npm_install_dirs from its end.
InstallDirReversed(d, i) == d.npmInstallDirs[Len(d.npmInstallDirs) + 1 - i]

\* `for relative_dir in npm_install_dirs:`: the directory of iteration i.
InstallDirAt(d, i) == d.npmInstallDirs[i]

\* run_command_with_logging with the exit code test dropped.
CommandFailsNever(exit) == FALSE

\* run_command_with_logging: `if exit_code != 0: raise RuntimeError(...)`
CommandFails(exit) == exit # 0

\* One iteration of `for relative_dir in npm_install_dirs:`.
InstallDir ==
    /\ spc = "install"
    /\ idx <= Len(desc.npmInstallDirs)
    /\ LET rel == InstallDirAt(desc, idx) IN
       IF ~IsDir(fs, extraction, rel)
       THEN Raise("MissingInstallDir") /\ UNCHANGED <<fs, idx, trace, cmd>>
       ELSE IF NeedsInstall(fs, extraction, rel)
       THEN \E o \in NpmOutcomes :
                /\ (o.exit = 0 => ~o.partial) /\ (o.exit # 0 => ~o.built)
                /\ fs' = AfterNpm(fs, extraction, rel, o)
                /\ trace' = Append(trace, InstallEvent(rel))
                /\ cmd' = [kind |-> "npm", cwd |-> rel, exit |-> o.exit]
                /\ IF CommandFails(o.exit)
                   THEN /\ spc' = "failed"
                        /\ result' = CommandError("InstallFailed", rel, o.exit)
                        /\ UNCHANGED idx
                   ELSE idx' = idx + 1 /\ UNCHANGED <<spc, result>>
       ELSE idx' = idx + 1 /\ UNCHANGED <<fs, trace, spc, result, cmd>>
    /\ UNCHANGED <<desc, env, extraction, call, prev, entry, launch>>
    /\ UNCHANGED <<catalog, selected, resolvedAt>>
    /\ UNCHANGED <<serverVars, sideVars>>

\* The compile condition with the test of the script dropped.
NeedsCompileAlways(f, c, d) == d.compileCommand

\* `if not os.path.exists(server_script_path):` ... `if compile_command:`
NeedsCompile(f, c, d) == ~ScriptExists(f, c) /\ d.compileCommand

\* After the loop: `if not os.path.exists(server_script_path):` run the compile
\* command when the descriptor sets one.
Compile ==
    /\ spc = "install"
    /\ idx > Len(desc.npmInstallDirs)
    /\ IF NeedsCompile(fs, extraction, desc)
       THEN LET dir == desc.compileWorkingDirectory IN
            IF ~IsDir(fs, extraction, dir)
            THEN Raise("MissingCompileDir") /\ UNCHANGED <<fs, trace, cmd>>
            ELSE \E o \in CompileOutcomes :
                    /\ (o.exit # 0 => ~o.built)
                    /\ fs' = AfterCompile(fs, extraction, o)
                    /\ trace' = Append(trace, "compile")
                    /\ cmd' = [kind |-> "compile", cwd |-> dir, exit |-> o.exit]
                    /\ IF CommandFails(o.exit)
                       THEN /\ spc' = "failed"
                            /\ result' = CommandError("CompileFailed", dir, o.exit)
                       ELSE spc' = "final" /\ UNCHANGED result
       ELSE spc' = "final" /\ UNCHANGED <<fs, trace, result, cmd>>
    /\ UNCHANGED <<desc, env, extraction, idx, call, prev, entry, launch>>
    /\ UNCHANGED <<catalog, selected, resolvedAt>>
    /\ UNCHANGED <<serverVars, sideVars>>

\* The guard of the final `if not os.path.exists(server_script_path): raise`.
\* Its mutant returns whatever the disk holds.
FinalCheckSkipped(f, c) == TRUE
FinalCheckPasses(f, c) == ScriptExists(f, c)

\* The final existence check and the return of the launch command.
FinalCheck ==
    /\ spc = "final"
    /\ IF ~FinalCheckPasses(fs, extraction)
       THEN Raise("EntryPointNotFound") /\ UNCHANGED trace
       ELSE /\ spc' = "returned"
            /\ result' = Ok(extraction)
            /\ trace' = Append(trace, "return")
    /\ UNCHANGED <<desc, env, fs, extraction, idx, call, prev, entry, launch>>
    /\ UNCHANGED <<catalog, selected, cmd, resolvedAt>>
    /\ UNCHANGED <<serverVars, sideVars>>

\* __init__ hands the returned command to the base class as ProcessLaunchInfo.
ConstructBase ==
    /\ spc = "returned"
    /\ launch = 0
    /\ launch' = result.script
    /\ UNCHANGED <<desc, env, fs, spc, extraction, idx, trace, result, call,
                   prev, entry>>
    /\ UNCHANGED <<catalog, selected, cmd, resolvedAt>>
    /\ UNCHANGED <<serverVars, sideVars>>

\* Another SolidityLanguageServer is constructed on the filesystem the previous
\* construction left behind.
NewServer ==
    /\ spc \in {"returned", "failed"}
    /\ spc = "returned" => launch # 0
    /\ call < MaxCalls
    /\ call' = call + 1
    /\ prev' = [result |-> result, trace |-> trace]
    /\ spc' = "idle"
    /\ result' = NoResult
    /\ trace' = <<>>
    /\ extraction' = Primary
    /\ idx' = 1
    /\ launch' = 0
    /\ selected' = 0
    /\ cmd' = NoCmd
    /\ resolvedAt' = -1
    /\ UNCHANGED <<desc, env, fs, entry, catalog>>
    /\ UNCHANGED <<serverVars, sideVars>>

ServerIdle ==
    /\ pc = "idle" /\ procs = <<>> /\ cur = 0 /\ gate = FALSE
    /\ serverStarted = FALSE /\ handlers = {} /\ initResp = "none"
    /\ answers = FALSE /\ clock = 0 /\ log = <<>> /\ err = "none"
    /\ starts = 0 /\ requests = 0

\* The state of an invocation that has not been entered yet.
SetupIdle ==
    /\ spc = "idle"
    /\ extraction = Primary
    /\ idx = 1
    /\ trace = <<>>
    /\ result = NoResult
    /\ call = 1
    /\ prev = [result |-> NoResult, trace |-> <<>>]
    /\ entry = [installed |-> FALSE, first |-> Primary, fs |-> fs]
    /\ launch = 0
    /\ selected = 0
    /\ cmd = NoCmd
    /\ resolvedAt = -1

SetupInit ==
    /\ desc \in Descriptors
    /\ fs \in {f \in FileSystems : RelevantTo(f, desc)}
    /\ env \in Envs
    /\ catalog = DefaultCatalog
    /\ SetupIdle
    /\ ServerIdle
    /\ SideIdle

SetupNext ==
    \/ SetupBegin
    \/ LoadCatalog
    \/ SetupPaths
    \/ PrepareInstallation
    \/ CheckExtraction
    \/ InstallDir
    \/ Compile
    \/ FinalCheck
    \/ ConstructBase
    \/ NewServer

SetupSpec == SetupInit /\ [][SetupNext]_vars

\* The bootstrap on catalogs of every shape: the descriptor of the platform
\* is one with a single install directory, on a disk that holds nothing or
\* only the root directory.
CatalogInit ==
    /\ catalog \in Catalogs
    /\ env \in [node : {TRUE}, npm : {TRUE}, platform : PlatformIds]
    /\ desc \in {d \in Descriptors : d.legacy = 0 /\ d.npmInstallDirs = <<".">>}
    /\ fs \in [root : BOOLEAN,
                tree : {[c \in Cands |->
                          [dir |-> FALSE, script |-> FALSE, sub |-> FALSE,
                           nm |-> [r \in RelDirs |-> "absent"]]]}]
    /\ SetupIdle
    /\ ServerIdle
    /\ SideIdle

CatalogSpec == CatalogInit /\ [][SetupNext]_vars

----------------------------------------------------------------------------
(***************************************************************************)
(* Part 2: start_server.                                                   *)
(*                                                                         *)
(* The coroutine is followed from its entry to the point where it returns  *)
(* or an error leaves it.  The server process, the JSON-RPC handler        *)
(* (self.server) and the base class LanguageServer are collaborators: the  *)
(* process answers initialize with or without capabilities or with an      *)
(* error, and answers shutdown or stays silent.                            *)
(***************************************************************************)
ShutdownTimeout == 5

BuiltinHandlers ==
    {"window/logMessage", "$/progress", "textDocument/publishDiagnostics"}

InitializeResponses == {"capabilities", "no_capabilities", "error"}

\* Whether event e is in the log of the current start, and where.
Logged(e) == \E i \in 1..Len(log) : log[i] = e
Count(e) == Cardinality({i \in 1..Len(log) : log[i] = e})
Before(e1, e2) ==
    \E i, j \in 1..Len(log) : i < j /\ log[i] = e1 /\ log[j] = e2

\* The process of the current start is running.
Running == cur # 0 /\ procs[cur] = "running"

\* An error leaves start_server: nothing below the raising line runs, and
\* the base class's context manager re-raises without resetting its flag.
Propagate(e) ==
    /\ pc' = "raised"
    /\ err' = e

\* start_server without the registrations ahead of the spawn.
on_notification_skipped(h) == h

\* The three self.server.on_notification(...) calls: the methods registered
\* once they have run, h being the methods registered before.
on_notification(h) == h \cup BuiltinHandlers

\* The three on_notification registrations and the entry of
\* `async with super().start_server()`.
EnterStartServer ==
    /\ pc \in {"idle", "exited", "raised"}
    /\ starts < MaxStarts
    /\ starts' = starts + 1
    /\ handlers' = on_notification(handlers)
    /\ serverStarted' = TRUE
    /\ pc' = "spawning"
    /\ log' = <<>>
    /\ err' = "none"
    /\ initResp' = "none"
    /\ clock' = 0
    /\ requests' = 0
    /\ UNCHANGED <<procs, cur, gate, answers>>
    /\ UNCHANGED <<setupVars, sideVars>>

\* start_server with the call of self.server.start() made only while the
\* object has no process yet: a later start goes on with the old one.
ServerStartOnce ==
    /\ pc = "spawning"
    /\ IF procs = <<>>
       THEN /\ procs' = Append(procs, "running")
            /\ cur' = Len(procs) + 1
            /\ answers' \in BOOLEAN
            /\ log' = Append(log, "spawn")
       ELSE UNCHANGED <<procs, cur, answers, log>>
    /\ pc' = "initializing"
    /\ UNCHANGED <<err, gate, serverStarted, handlers, initResp, clock, starts,
                   requests>>
    /\ UNCHANGED <<setupVars, sideVars>>

\* `await self.server.start()`: the process is spawned, or cannot be.
ServerStart ==
    /\ pc = "spawning"
    /\ \/ /\ procs' = Append(procs, "running")
          /\ cur' = Len(procs) + 1
          /\ answers' \in BOOLEAN
          /\ log' = Append(log, "spawn")
          /\ pc' = "initializing"
          /\ UNCHANGED err
       \/ /\ Propagate("SpawnError")
          /\ UNCHANGED <<procs, cur, answers, log>>
    /\ UNCHANGED <<gate, serverStarted, handlers, initResp, clock, starts, requests>>
    /\ UNCHANGED <<setupVars, sideVars>>

\* `init_response = await self.server.send.initialize(initialize_params)`
InitializeRequest ==
    /\ pc = "initializing"
    /\ \E r \in InitializeResponses :
          /\ log' = Append(log, "initialize")
          /\ IF r = "error"
             THEN Propagate("InitializeError") /\ UNCHANGED initResp
             ELSE initResp' = r /\ pc' = "checking" /\ UNCHANGED err
    /\ UNCHANGED <<procs, cur, gate, serverStarted, handlers, answers, clock,
                   starts, requests>>
    /\ UNCHANGED <<setupVars, sideVars>>

\* The handshake with the capabilities check after the notification: the
\* `initialized` notification goes out whatever the response holds.
HandshakeNotifiesFirst ==
    /\ pc = "checking"
    /\ IF initResp = "no_capabilities"
       THEN /\ log' = Append(log, "initialized")
            /\ Propagate("InvalidInitializeResponse")
            /\ UNCHANGED gate
       ELSE /\ log' = log \o <<"initialized", "gate_set", "yield">>
            /\ gate' = TRUE
            /\ pc' = "ready"
            /\ UNCHANGED err
    /\ UNCHANGED <<procs, cur, serverStarted, handlers, initResp, answers,
                   clock, starts, requests>>
    /\ UNCHANGED <<setupVars, sideVars>>

\* The capabilities check, the `initialized` notification,
\* completions_available.set() and `yield self`.
Handshake ==
    /\ pc = "checking"
    /\ IF initResp = "no_capabilities"
       THEN /\ Propagate("InvalidInitializeResponse")
            /\ UNCHANGED <<log, gate>>
       ELSE /\ log' = log \o <<"initialized", "gate_set", "yield">>
            /\ gate' = TRUE
            /\ pc' = "ready"
            /\ UNCHANGED err
    /\ UNCHANGED <<procs, cur, serverStarted, handlers, initResp, answers,
                   clock, starts, requests>>
    /\ UNCHANGED <<setupVars, sideVars>>

\* The caller's block issues a request (request_definition, ...).
CallerRequest ==
    /\ pc = "ready"
    /\ requests < MaxRequests
    /\ requests' = requests + 1
    /\ log' = Append(log, "request")
    /\ UNCHANGED <<pc, procs, cur, gate, serverStarted, handlers, initResp,
                   answers, clock, err, starts>>
    /\ UNCHANGED <<setupVars, sideVars>>

\* The caller's block raises: the error is thrown into the coroutine at
\* `yield self`, which no try statement encloses.
CallerRaises ==
    /\ pc = "ready"
    /\ Propagate("CallerError")
    /\ UNCHANGED <<procs, cur, gate, serverStarted, handlers, initResp,
                   answers, clock, log, starts, requests>>
    /\ UNCHANGED <<setupVars, sideVars>>

\* The caller's block ends: the coroutine resumes after `yield self` and
\* awaits wait_for(self.server.shutdown(), timeout=5).
CallerExits ==
    /\ pc = "ready"
    /\ pc' = "shutting_down"
    /\ clock' = 0
    /\ log' = Append(log, "shutdown_sent")
    /\ UNCHANGED <<procs, cur, gate, serverStarted, handlers, initResp,
                   answers, err, starts, requests>>
    /\ UNCHANGED <<setupVars, sideVars>>

\* One time unit passes while the shutdown request is pending.
Tick ==
    /\ pc = "shutting_down"
    /\ clock < ShutdownTimeout
    /\ clock' = clock + 1
    /\ UNCHANGED <<pc, procs, cur, gate, serverStarted, handlers, initResp,
                   answers, log, err, starts, requests>>
    /\ UNCHANGED <<setupVars, sideVars>>

\* The server answers shutdown before the deadline.
ShutdownAnswered ==
    /\ pc = "shutting_down"
    /\ answers
    /\ clock < ShutdownTimeout
    /\ log' = Append(log, "shutdown_ok")
    /\ pc' = "stopping"
    /\ UNCHANGED <<procs, cur, gate, serverStarted, handlers, initResp,
                   answers, clock, err, starts, requests>>
    /\ UNCHANGED <<setupVars, sideVars>>

\* self.server.shutdown() raises something other than a timeout: no except
\* clause handles it, the finally clause still runs.
ShutdownFails ==
    /\ pc = "shutting_down"
    /\ clock < ShutdownTimeout
    /\ err' = "ShutdownError"
    /\ pc' = "stopping"
    /\ UNCHANGED <<procs, cur, gate, serverStarted, handlers, initResp,
                   answers, clock, log, starts, requests>>
    /\ UNCHANGED <<setupVars, sideVars>>

\* The deadline fires with no except clause for it: the finally clause runs
\* and the TimeoutError leaves start_server.
ShutdownTimesOutPropagates ==
    /\ pc = "shutting_down"
    /\ clock = ShutdownTimeout
    /\ err' = "TimeoutError"
    /\ pc' = "stopping"
    /\ UNCHANGED <<procs, cur, gate, serverStarted, handlers, initResp,
                   answers, clock, log, starts, requests>>
    /\ UNCHANGED <<setupVars, sideVars>>

\* The deadline fires: `except asyncio.TimeoutError:` logs the warning.
ShutdownTimesOut ==
    /\ pc = "shutting_down"
    /\ clock = ShutdownTimeout
    /\ log' = Append(log, "timeout_warning")
    /\ pc' = "stopping"
    /\ UNCHANGED <<procs, cur, gate, serverStarted, handlers, initResp,
                   answers, clock, err, starts, requests>>
    /\ UNCHANGED <<setupVars, sideVars>>

\* `finally: await self.server.stop()`, then the exit of the base class's
\* context manager; a pending error goes on to the caller.
StopServer ==
    /\ pc = "stopping"
    /\ procs' = [procs EXCEPT ![cur] = "stopped"]
    /\ log' = Append(log, "stop")
    /\ IF err = "none"
       THEN pc' = "exited" /\ serverStarted' = FALSE
       ELSE pc' = "raised" /\ UNCHANGED serverStarted
    /\ UNCHANGED <<cur, gate, handlers, initResp, answers, clock, err,
                   starts, requests>>
    /\ UNCHANGED <<setupVars, sideVars>>

\* The state a successful construction leaves: start_server is only called
\* on a constructed object.
Constructed ==
    /\ desc = [legacy |-> 0, npmInstallDirs |-> <<>>,
               compileCommand |-> FALSE, compileWorkingDirectory |-> "."]
    /\ env = [node |-> TRUE, npm |-> TRUE, platform |-> "linux-x64"]
    /\ catalog = DefaultCatalog
    /\ fs = [root |-> TRUE,
             tree |-> [c \in Cands |->
                        [dir |-> c = Primary, script |-> c = Primary,
                         sub |-> FALSE, nm |-> [r \in RelDirs |-> "absent"]]]]
    /\ spc = "returned"
    /\ extraction = Primary
    /\ idx = 1
    /\ trace = <<"return">>
    /\ result = Ok(Primary)
    /\ call = 1
    /\ prev = [result |-> NoResult, trace |-> <<>>]
    /\ entry = [installed |-> TRUE, first |-> Primary, fs |-> fs]
    /\ launch = Primary
    /\ selected = FindDescriptor(catalog, env.platform)
    /\ cmd = NoCmd
    /\ resolvedAt = 0

ServerInit == Constructed /\ ServerIdle /\ SideIdle

ServerNext ==
    \/ EnterStartServer
    \/ ServerStart
    \/ InitializeRequest
    \/ Handshake
    \/ CallerRequest
    \/ CallerRaises
    \/ CallerExits
    \/ Tick
    \/ ShutdownAnswered
    \/ ShutdownFails
    \/ ShutdownTimesOut
    \/ StopServer

ServerSpec == ServerInit /\ [][ServerNext]_vars

\* The event loop runs a coroutine that can run: the timer of wait_for
\* advances and fires, and the finally clause is executed.
FairServerSpec ==
    /\ ServerSpec
    /\ WF_vars(Tick)
    /\ WF_vars(ShutdownTimesOut)
    /\ WF_vars(StopServer)

----------------------------------------------------------------------------
(***************************************************************************)
(* Part 3: publish_diagnostics, the handler start_server registers for     *)
(* textDocument/publishDiagnostics.                                        *)
(*                                                                         *)
(* A notification is the shape of its params: whether it is a dict, which  *)
(* of the keys uri and diagnostics it has, and how many diagnostics it     *)
(* carries.  The entries of the list are read one per loop iteration; an   *)
(* entry is its severity field, present with an integer code or missing.   *)
(* A log line is the count line or the detail line of one entry; last is   *)
(* the entry the latest loop iteration read.                               *)
(***************************************************************************)
DetailLimit == 5    \* diagnostics[:5]

SeverityCodes == -5..5

SeverityNames == <<"Error", "Warning", "Info", "Hint">>

Notifications ==
    [dict : BOOLEAN, uri : BOOLEAN, diagnostics : BOOLEAN, n : 0..MaxDiags]

DiagEntries ==
    {[has |-> FALSE, code |-> 0]} \cup [has : {TRUE}, code : SeverityCodes]

Min(a, b) == IF a <= b THEN a ELSE b

\* diag.get('severity', 1)
GetSeverity(d) == IF d.has THEN d.code ELSE 1

\* list[k] of Python: position k counted from 0, a negative k counted from
\* the end; the result is the position counted from 1, or 0 for IndexError.
PyIndex(seq, k) ==
    IF k >= 0 /\ k < Len(seq) THEN k + 1
    ELSE IF k < 0 /\ k >= -Len(seq) THEN Len(seq) + k + 1
    ELSE 0

\* The position in SeverityNames that
\* ['Error', 'Warning', 'Info', 'Hint'][min(severity, 3)] reads.
SeverityIndex(sev) == PyIndex(SeverityNames, Min(sev, 3))

\* The slice with its limit off by one: diagnostics[:4].
DetailsOfShortSlice(n) == Min(n, DetailLimit - 1)

\* len(diagnostics[:5])
DetailsOf(n) == Min(n, DetailLimit)

CountLine(n) == [kind |-> "count", entry |-> 0, n |-> n, name |-> "none"]
DetailLine(i, name) == [kind |-> "detail", entry |-> i, n |-> 0, name |-> name]

\* `isinstance(params, dict) and 'uri' in params and 'diagnostics' in params`
\* and then `if diagnostics:`
LogsDiagnostics(p) == p.dict /\ p.uri /\ p.diagnostics /\ p.n > 0

\* A notification reaches the handler, which runs up to its loop: the count
\* line is logged when the params pass both tests.
PublishDiagnostics ==
    /\ diag.phase \in {"idle", "done", "failed"}
    /\ \E p \in Notifications :
          diag' = IF LogsDiagnostics(p)
                  THEN [phase |-> "details", params |-> p, i |-> 1,
                        lines |-> <<CountLine(p.n)>>, last |-> NoEntry]
                  ELSE [phase |-> "done", params |-> p, i |-> 0, lines |-> <<>>,
                        last |-> NoEntry]
    /\ UNCHANGED <<setupVars, serverVars, cfg, rpc>>

\* One iteration of `for diag in diagnostics[:5]:`: the severity name is
\* looked up and the detail line logged; IndexError leaves the handler.
DiagDetail ==
    /\ diag.phase = "details"
    /\ diag.i <= DetailsOf(diag.params.n)
    /\ \E d \in DiagEntries :
          LET k == SeverityIndex(GetSeverity(d)) IN
          diag' = IF k = 0
                  THEN [diag EXCEPT !.phase = "failed", !.last = d]
                  ELSE [diag EXCEPT !.i = @ + 1,
                                    !.last = d,
                                    !.lines = Append(@, DetailLine(diag.i,
                                                         SeverityNames[k]))]
    /\ UNCHANGED <<setupVars, serverVars, cfg, rpc>>

\* The loop is over and the handler returns.
DiagReturn ==
    /\ diag.phase = "details"
    /\ diag.i > DetailsOf(diag.params.n)
    /\ diag' = [diag EXCEPT !.phase = "done"]
    /\ UNCHANGED <<setupVars, serverVars, cfg, rpc>>

DiagInit ==
    /\ Constructed
    /\ ServerIdle
    /\ SideIdle

DiagNext ==
    \/ PublishDiagnostics
    \/ DiagDetail
    \/ DiagReturn

DiagSpec == DiagInit /\ [][DiagNext]_vars

----------------------------------------------------------------------------
(***************************************************************************)
(* Part 4: MultilspyConfig.from_dict.                                      *)
(*                                                                         *)
(* A string is the tuple of its characters.  The input dictionary is what  *)
(* it holds under each of the three field names, "absent" when the key is  *)
(* missing, and whether it has a key that is no field.  The value under    *)
(* code_language is a str, a Language member (whose characters are its     *)
(* value), an int or None.                                                 *)
(***************************************************************************)
\* The values of the members of class Language.
LanguageValues ==
    {<<"c", "s", "h", "a", "r", "p">>,
     <<"p", "y", "t", "h", "o", "n">>,
     <<"r", "u", "s", "t">>,
     <<"j", "a", "v", "a">>,
     <<"k", "o", "t", "l", "i", "n">>,
     <<"t", "y", "p", "e", "s", "c", "r", "i", "p", "t">>,
     <<"j", "a", "v", "a", "s", "c", "r", "i", "p", "t">>,
     <<"g", "o">>,
     <<"r", "u", "b", "y">>,
     <<"d", "a", "r", "t">>,
     <<"c", "p", "p">>,
     <<"s", "o", "l", "i", "d", "i", "t", "y">>}

\* The characters code_language strings are drawn from, and their pairs of
\* upper-case and lower-case letter.
CasePairs == {<<"G", "g">>, <<"O", "o">>, <<"C", "c">>, <<"P", "p">>}
Alphabet == {pr[1] : pr \in CasePairs} \cup {pr[2] : pr \in CasePairs}

Strings == UNION {[1..n -> Alphabet] : n \in 0..MaxStrLen}

\* str.lower() leaving every character as it is.
LowerUnchanged(s) == s

\* str.lower()
Lower(s) ==
    [i \in 1..Len(s) |->
        IF \E pr \in CasePairs : pr[1] = s[i]
        THEN (CHOOSE pr \in CasePairs : pr[1] = s[i])[2]
        ELSE s[i]]

FieldValues == {"absent", "True", "False"}

ConfigInputs ==
    [code_language :
         [type : {"absent", "int", "NoneType"}, chars : {<<>>}]
         \cup [type : {"str"}, chars : Strings]
         \cup [type : {"Language"}, chars : LanguageValues],
     trace_lsp_communication : FieldValues,
     start_independent_lsp_process : FieldValues,
     extra : BOOLEAN]

\* isinstance(value, str): class Language derives from str.
IsStr(v) == v.type \in {"str", "Language"}

\* An error raised by from_dict.
ConfigError(e) ==
    [kind |-> e, code_language |-> <<>>,
     trace_lsp_communication |-> "none",
     start_independent_lsp_process |-> "none"]

\* cls(**kwargs): a field missing from kwargs takes its default.
Construct(d, language) ==
    [kind |-> "ok",
     code_language |-> language,
     trace_lsp_communication |->
         IF d.trace_lsp_communication = "absent" THEN "False"
         ELSE d.trace_lsp_communication,
     start_independent_lsp_process |->
         IF d.start_independent_lsp_process = "absent" THEN "True"
         ELSE d.start_independent_lsp_process]

\* from_dict on the dictionary d: the loop over the fields of the
\* dataclass, then the construction.  code_language has no default, so its
\* absence makes the constructor raise TypeError.
from_dict(d) ==
    LET value == d.code_language IN
    IF value.type = "absent" THEN ConfigError("TypeError")
    ELSE IF IsStr(value)
    THEN IF Lower(value.chars) \in LanguageValues
         THEN Construct(d, Lower(value.chars))
         ELSE ConfigError("ValueError")
    ELSE ConfigError("TypeError")

\* MultilspyConfig.from_dict is called on the dictionary.
FromDict ==
    /\ ~cfg.called
    /\ cfg' = [cfg EXCEPT !.called = TRUE, !.out = from_dict(cfg.input)]
    /\ UNCHANGED <<setupVars, serverVars, diag, rpc>>

ConfigInit ==
    /\ Constructed
    /\ ServerIdle
    /\ diag = DiagIdle
    /\ rpc = RpcIdle
    /\ cfg \in [called : {FALSE}, input : ConfigInputs, out : {NoConfig}]

ConfigNext == FromDict

ConfigSpec == ConfigInit /\ [][ConfigNext]_vars

----------------------------------------------------------------------------
(***************************************************************************)
(* Part 5: correlation of responses to requests by the transport           *)
(* (self.server).                                                          *)
(*                                                                         *)
(* Every caller sends one request and waits on its waiter.  A request gets *)
(* the next id of the counter; the server's result for it is the answer to *)
(* that caller's question, written as the caller itself.  Responses travel *)
(* on the wire in any order and may be repeated by the server.             *)
(***************************************************************************)
\* The waiter a response goes to when the map is read in arrival order: the
\* oldest pending waiter, whatever the id of the response.
WaiterOldest(pending, id) ==
    {w \in pending : \A v \in pending : w.id <= v.id}

\* The pending waiter registered under the id of the response.
WaiterFor(pending, id) == {w \in pending : w.id = id}

\* The caller whose request carries this id.
CallerOf(id) == CHOOSE c \in Callers : rpc.asked[c] = id

\* A caller issues a request: the next id is taken and its waiter
\* registered, both under the lock.
SendRequest ==
    /\ \E c \in Callers :
          /\ rpc.asked[c] = 0
          /\ rpc' = [rpc EXCEPT !.nextId = @ + 1,
                                !.asked[c] = rpc.nextId,
                                !.pending = @ \cup {[id |-> rpc.nextId,
                                                     caller |-> c]}]
    /\ UNCHANGED <<setupVars, serverVars, diag, cfg>>

\* The server writes the response to a request it has received.
ServerResponds ==
    /\ \E id \in 1..(rpc.nextId - 1) :
          rpc' = [rpc EXCEPT !.wire = @ \cup {[id |-> id,
                                               result |-> CallerOf(id)]}]
    /\ UNCHANGED <<setupVars, serverVars, diag, cfg>>

\* The reader takes a response off the wire: the matching waiter is
\* resolved with its result and leaves the map; without one the response is
\* dropped.
DeliverResponse ==
    /\ \E r \in rpc.wire :
          LET ws == WaiterFor(rpc.pending, r.id) IN
          IF ws = {}
          THEN rpc' = [rpc EXCEPT !.wire = @ \ {r}]
          ELSE LET w == CHOOSE w \in ws : TRUE IN
               rpc' = [rpc EXCEPT !.wire = @ \ {r},
                                  !.pending = @ \ {w},
                                  !.future[w.caller] = r,
                                  !.delivered = Append(@, r.id)]
    /\ UNCHANGED <<setupVars, serverVars, diag, cfg>>

RpcInit ==
    /\ Constructed
    /\ ServerIdle
    /\ SideIdle

RpcNext ==
    \/ SendRequest
    \/ ServerResponds
    \/ DeliverResponse

RpcSpec == RpcInit /\ [][RpcNext]_vars

----------------------------------------------------------------------------
(***************************************************************************)
(* The claims.                                                             *)
(***************************************************************************)
Terminated == pc \in {"exited", "raised"}
SetupEnded == spc \in {"returned", "failed"}
HostComplete == env.node /\ env.npm /\ IsSupported(catalog, env.platform)

\* C1: cleanup runs unconditionally.  In every terminal state of
\* start_server reached after the session was yielded to the caller (the
\* caller's block ended or raised), the process of that start is not running
\* and server.stop was performed.
C1_CleanupUnconditional ==
    (Terminated /\ Logged("yield")) => (~Running /\ Logged("stop"))

\* C2: a failure of the initialize step after the spawn (the request raises,
\* or the response has no capabilities) kills the spawned process, reaches
\* the caller as an error, and the session is never yielded.
C2_FailedStartKillsProcess ==
    (Terminated /\ err \in {"InitializeError", "InvalidInitializeResponse"})
        => (~Running /\ pc = "raised" /\ ~Logged("yield"))

\* C3: after a normal exit of the caller's block the shutdown request is
\* raced against the 5-unit deadline and the process is stopped in the end,
\* whether the server answers or not; the timeout warning is logged only at
\* the deadline, before the stop, and is not an error for the caller; a
\* server that never answers leads to the warning.
C3_Safety ==
    /\ Logged("timeout_warning") => clock = ShutdownTimeout
    /\ (Terminated /\ Logged("shutdown_sent")) => (~Running /\ Logged("stop"))
    /\ (Terminated /\ Logged("shutdown_sent") /\ ~answers /\ err # "ShutdownError")
          => Logged("timeout_warning")
    /\ (Logged("timeout_warning") /\ Logged("stop"))
          => Before("timeout_warning", "stop")
    /\ Logged("timeout_warning") => (err = "none" /\ pc # "raised")

\* C3: the safety part above holds in every state, and every wait on the
\* shutdown request leads to a terminal state with the process stopped.
C3_ShutdownDeadline ==
    /\ []C3_Safety
    /\ (pc = "shutting_down") ~> (Terminated /\ ~Running)

\* A silent server was stopped at the deadline and start_server returned.
C3_Witness ==
    /\ pc = "exited" /\ ~answers /\ ~Running
    /\ Logged("timeout_warning") /\ clock = ShutdownTimeout

\* C4: an initialize response without capabilities makes start_server fail
\* with the protocol error, with no initialized notification, no
\* completions_available.set() and no yield in that start; a response with
\* capabilities leads to exactly one initialized notification and the set of
\* the gate, both before the one yield.
C4_Handshake ==
    /\ err = "InvalidInitializeResponse"
          => (~Logged("initialized") /\ ~Logged("gate_set") /\ ~Logged("yield"))
    /\ (initResp = "no_capabilities" /\ pc # "checking")
          => (pc = "raised" /\ err = "InvalidInitializeResponse")
    /\ (initResp = "capabilities" /\ pc # "checking")
          => /\ Count("initialized") = 1 /\ Count("yield") = 1 /\ gate
             /\ Before("initialized", "yield") /\ Before("gate_set", "yield")
    /\ Logged("yield") => initResp = "capabilities"

\* A start that yielded was followed by a start whose initialize response
\* lacked capabilities.
C4_Witness ==
    /\ starts = 2 /\ gate
    /\ pc = "raised" /\ err = "InvalidInitializeResponse"
    /\ initResp = "no_capabilities"

\* C5: the readiness gate is open only while the session is Ready: the
\* process of the current start is running and the initialize/initialized
\* exchange of that start has completed.
C5_GateOnlyWhenReady == gate => (Running /\ Logged("initialized"))

\* C6: when the script exists under some candidate at the time
\* setup_runtime_dependencies is invoked (node, npm and the platform being
\* available), the invocation performs no download, no install and no compile
\* and returns the launch command for that script.
C6_InstalledMeansNoWork ==
    (SetupEnded /\ entry.installed /\ HostComplete)
        => (result = Ok(entry.first) /\ trace = <<"return">>)

\* C7: an invocation on the tree left by a successful invocation performs no
\* download, no install and no compile and returns the same launch command.
C7_Idempotent ==
    (call > 1 /\ prev.result.kind = "ok" /\ SetupEnded)
        => (result = prev.result /\ trace = <<"return">>)

\* The first invocation downloaded or installed or compiled; the second
\* returned.
C7_Witness ==
    /\ call > 1 /\ prev.result.kind = "ok" /\ Len(prev.trace) > 1
    /\ spc = "returned"

\* C8: once the paths are resolved, and up to the return, the selected
\* candidate has no candidate with an existing script before it in the order
\* primary, legacy 1, legacy 2, ...; a legacy candidate is selected only when
\* its script exists; the launch command names the script of the selected
\* candidate.
C8_FirstCandidateWins ==
    spc \in {"prepare", "extraction", "install", "final", "returned"}
        => /\ extraction \in CandidatesOf(desc)
           /\ \A c \in CandidatesOf(desc) : c < extraction => ~ScriptExists(fs, c)
           /\ extraction # Primary => ScriptExists(fs, extraction)
           /\ spc = "extraction"
                 => ((\E c \in CandidatesOf(desc) : ScriptExists(fs, c))
                        => ScriptExists(fs, extraction))
           /\ spc = "returned" => result = Ok(extraction)

\* A legacy script was returned although the primary directory exists.
C8_Witness ==
    /\ spc = "returned" /\ result.script # Primary
    /\ fs.tree[Primary].dir /\ ~ScriptExists(fs, Primary)

\* C9: with one install directory ".", no compile command and no file on
\* disk at entry, a successful invocation performs one download, then one
\* install in ".", then returns a launch command whose script exists.
C9_ColdCacheOrder ==
    (/\ spc = "returned"
     /\ desc.npmInstallDirs = <<".">> /\ ~desc.compileCommand
     /\ \A c \in Cands : ~entry.fs.tree[c].dir)
        => /\ trace = <<"download", "install:.", "return">>
           /\ result.kind = "ok" /\ ScriptExists(fs, result.script)

C9_Witness ==
    /\ spc = "returned" /\ call = 1
    /\ desc.npmInstallDirs = <<".">> /\ ~desc.compileCommand
    /\ ~entry.fs.root /\ \A c \in Cands : ~entry.fs.tree[c].dir
    /\ trace = <<"download", "install:.", "return">>

\* C10: a launch command is returned, and handed to the process launcher,
\* only for a script that exists on disk; when the final check finds the
\* script missing the invocation fails with EntryPointNotFound.
C10_Safety ==
    /\ spc = "returned" => (result.kind = "ok" /\ ScriptExists(fs, result.script))
    /\ launch # 0 => ScriptExists(fs, launch)
    /\ result.err = "EntryPointNotFound" => (launch = 0 /\ spc = "failed")

\* C10: the safety part above holds in every state, and the step taken at
\* the final check with the script missing is the EntryPointNotFound failure.
C10_ReturnsOnlyExistingScript ==
    /\ []C10_Safety
    /\ [][(spc = "final" /\ ~ScriptExists(fs, extraction))
            => (spc' = "failed" /\ result' = Error("EntryPointNotFound"))]_vars

\* The pipeline downloaded or compiled and the script was still missing.
C10_Witness ==
    /\ spc = "failed" /\ result.err = "EntryPointNotFound"
    /\ Len(trace) > 0 /\ ~ScriptExists(fs, extraction)

----------------------------------------------------------------------------
\* The platform id of the host is the platformId of some catalog entry.
PlatformPresent == env.platform \in {catalog[i] : i \in DOMAIN catalog}

\* The invocation is past the descriptor lookup.
PastLookup ==
    \/ spc \in {"paths", "prepare", "extraction", "install", "final", "returned"}
    \/ spc = "failed" /\ result.err \notin {"NodeNotFound", "NpmNotFound",
                                            "UnsupportedPlatform",
                                            "NoRuntimeDependency"}

\* C11: when the platform id of the host is in the catalog, the lookup binds
\* `dependency` to one catalog entry and that entry has the platform's id;
\* when it is not, the invocation ends with UnsupportedPlatform and has done
\* nothing: the filesystem is as at entry (no directory created), nothing was
\* downloaded and no command was run.
C11_DescriptorResolution ==
    /\ (PlatformPresent /\ spc \notin {"idle", "catalog"})
          => /\ PastLookup
             /\ selected \in DOMAIN catalog
             /\ catalog[selected] = env.platform
    /\ (~PlatformPresent /\ spc \notin {"idle", "catalog"})
          => /\ spc = "failed"
             /\ result = Error("UnsupportedPlatform")
             /\ selected = 0
             /\ fs = entry.fs
             /\ trace = <<>>
             /\ cmd = NoCmd
             /\ launch = 0

\* A host whose platform id is missing from a catalog that has entries, on a
\* disk where the root directory does not exist yet.
C11_Witness ==
    /\ spc = "failed"
    /\ result.err = "UnsupportedPlatform"
    /\ Len(catalog) = MaxCatalog
    /\ ~fs.root

\* A host whose platform id is the id of the second of two catalog entries.
C11_WitnessPresent ==
    /\ spc = "returned"
    /\ Len(catalog) >= 2
    /\ catalog[1] # env.platform
    /\ selected = 2

----------------------------------------------------------------------------
\* The lines logged so far start with the count line of the notification and
\* go on with the detail lines of entries 1, 2, ... in that order, never more
\* than five of them.
DiagLinesInOrder ==
    diag.lines # <<>> =>
        /\ diag.lines[1] = CountLine(diag.params.n)
        /\ Len(diag.lines) <= 1 + Min(diag.params.n, 5)
        /\ \A k \in 2..Len(diag.lines) :
              diag.lines[k].kind = "detail" /\ diag.lines[k].entry = k - 1

\* C12: for a notification with a uri and n >= 1 diagnostics the handler
\* logs one count line that states n and then min(n, 5) detail lines, one for
\* each of the first min(n, 5) entries in the order received: it runs to its
\* end, and at its end these are the lines.
C12_DiagnosticsLogged ==
    (diag.params.dict /\ diag.params.uri /\ diag.params.diagnostics
        /\ diag.params.n >= 1)
      => /\ DiagLinesInOrder
         /\ diag.phase # "failed"
         /\ diag.phase = "done" => Len(diag.lines) = 1 + Min(diag.params.n, 5)

\* What holds of the handler whatever the severities are: the lines are the
\* count line and detail lines in entry order, all min(n, 5) of them once
\* the handler has returned.
DiagLinesWhenReturned ==
    /\ DiagLinesInOrder
    /\ (diag.phase = "done" /\ LogsDiagnostics(diag.params))
          => Len(diag.lines) = 1 + Min(diag.params.n, 5)
    /\ (diag.phase = "done" /\ ~LogsDiagnostics(diag.params))
          => diag.lines = <<>>

\* Seven diagnostics: the count line states 7 and five detail lines follow.
DiagSevenEntries ==
    /\ diag.phase = "done"
    /\ diag.params.n = 7
    /\ Len(diag.lines) = 6

----------------------------------------------------------------------------
\* What holds in every state of a start, the first or a later one: a start
\* spawns at most one process, the process of the start is the newest one
\* and runs while the coroutine is between spawn and yield, and a session is
\* yielded only after spawn, initialize and initialized of that start.
C13_EachStart ==
    /\ Len(procs) <= starts
    /\ Count("spawn") <= 1
    /\ cur \in {0, Len(procs)}
    /\ pc \in {"initializing", "checking", "ready"}
          => (Running /\ Logged("spawn"))
    /\ pc = "ready"
          => /\ Before("spawn", "initialize")
             /\ Before("initialize", "initialized")
             /\ Before("initialized", "yield")
             /\ Count("initialize") = 1
             /\ Count("initialized") = 1

\* C13: start_server can be entered again on the same object after a start
\* has ended: the later start spawns a process of its own, runs the whole
\* initialize/initialized exchange again and yields a session the caller can
\* send requests to; each start owns one process, a stopped process stays
\* stopped, and the process in use only ever changes to a newly spawned one.
C13_Restartable ==
    /\ []C13_EachStart
    /\ [][\A i \in DOMAIN procs : procs[i] = "stopped" => procs'[i] = "stopped"]_vars
    /\ [][cur' # cur => (cur' = Len(procs) + 1 /\ procs'[cur'] = "running")]_vars

\* The first start has ended with its process stopped; the second start has
\* yielded on a second process and the caller has sent it a request.
C13_Witness ==
    /\ starts = 2
    /\ procs = <<"stopped", "running">>
    /\ cur = 2
    /\ pc = "ready"
    /\ requests = 1
    /\ log = <<"spawn", "initialize", "initialized", "gate_set", "yield", "request">>

----------------------------------------------------------------------------
\* Two strings are equal up to the case of their letters.
SameLetter(x, y) ==
    x = y \/ <<x, y>> \in CasePairs \/ <<y, x>> \in CasePairs
EqualIgnoringCase(s, t) ==
    Len(s) = Len(t) /\ \A i \in 1..Len(s) : SameLetter(s[i], t[i])
NamesLanguage(s) == \E l \in LanguageValues : EqualIgnoringCase(s, l)

\* C14: from_dict on any dictionary: a string code_language that is a
\* Language value up to case yields the configuration with that member; a
\* string that names no language raises ValueError; a code_language that is
\* neither a string nor a Language raises TypeError; a key that is no field
\* changes nothing; a field missing from the dictionary has its default
\* (trace_lsp_communication False, start_independent_lsp_process True).
C14_FromDict ==
    cfg.called =>
        LET given == cfg.input.code_language IN
        /\ (given.type = "str" /\ NamesLanguage(given.chars))
              => /\ cfg.out.kind = "ok"
                 /\ cfg.out.code_language \in LanguageValues
                 /\ EqualIgnoringCase(cfg.out.code_language, given.chars)
        /\ (given.type = "str" /\ ~NamesLanguage(given.chars))
              => cfg.out.kind = "ValueError"
        /\ given.type = "Language"
              => cfg.out.kind = "ok" /\ cfg.out.code_language = given.chars
        /\ given.type \in {"int", "NoneType"} => cfg.out.kind = "TypeError"
        /\ cfg.out.kind = "ok"
              => /\ cfg.out.trace_lsp_communication =
                       IF cfg.input.trace_lsp_communication = "absent"
                       THEN "False" ELSE cfg.input.trace_lsp_communication
                 /\ cfg.out.start_independent_lsp_process =
                       IF cfg.input.start_independent_lsp_process = "absent"
                       THEN "True" ELSE cfg.input.start_independent_lsp_process
                 /\ DOMAIN cfg.out = DOMAIN NoConfig

\* "Go" in mixed case, an unknown key and only one of the optional fields.
C14_Witness ==
    /\ cfg.called
    /\ cfg.input.code_language = [type |-> "str", chars |-> <<"G", "o">>]
    /\ cfg.input.extra
    /\ cfg.input.trace_lsp_communication = "absent"
    /\ cfg.input.start_independent_lsp_process = "False"
    /\ cfg.out.kind = "ok"
    /\ cfg.out.code_language = <<"g", "o">>
    /\ cfg.out.trace_lsp_communication = "False"

----------------------------------------------------------------------------
\* C15: whatever the order in which the responses to the requests in flight
\* are delivered, the waiter of every caller is resolved with the response
\* that carries the id of that caller's request, whose result is the answer
\* to that caller's request, and with no other; no two requests share an id.
C15_ResponseCorrelation ==
    /\ \A c \in Callers :
          rpc.future[c] # NoResponse
             => /\ rpc.asked[c] # 0
                /\ rpc.future[c].id = rpc.asked[c]
                /\ rpc.future[c].result = c
    /\ \A c1, c2 \in Callers :
          (c1 # c2 /\ rpc.asked[c1] # 0) => rpc.asked[c1] # rpc.asked[c2]
    /\ \A w \in rpc.pending : rpc.future[w.caller] = NoResponse

\* Requests 1, 2 and 3 were in flight together, sent by callers in another
\* order than their numbers, and their responses were delivered in the order
\* 3, 1, 2: every caller has its own answer.
C15_Witness ==
    /\ rpc.nextId = 4
    /\ rpc.asked[1] = 2 /\ rpc.asked[2] = 3 /\ rpc.asked[3] = 1
    /\ rpc.delivered = <<3, 1, 2>>
    /\ \A c \in 1..3 : rpc.future[c] = [id |-> rpc.asked[c], result |-> c]

----------------------------------------------------------------------------
\* The number of side-effecting steps (download, installs, compile) the
\* invocation has performed.
SideEffects == Cardinality({i \in DOMAIN trace : trace[i] # "return"})

\* C16: resolve_paths() is evaluated again after each side-effecting step
\* (the download, the package installs, the compile command): when the
\* pipeline has come to its final check, no side-effecting step has been
\* performed since the latest candidate resolution.
C16_ResolvedAfterEachStep ==
    spc \in {"final", "returned"} => resolvedAt = SideEffects

\* C16 as the code has it: resolve_paths() is evaluated again after the
\* download branch and not after that; the candidate it selected then stays
\* the one of the invocation, and after the installs and after the compile
\* command it is the script under that candidate whose existence is tested
\* again, so a script these steps leave under the selected candidate is
\* found and returned.
C16_ResolutionState ==
    /\ spc = "extraction"
          => resolvedAt = Len(trace) /\ extraction = resolve_paths(fs, desc)
    /\ spc \in {"install", "final", "returned"}
          => resolvedAt = Cardinality({i \in DOMAIN trace : trace[i] = "download"})
    /\ spc = "returned" => result = Ok(extraction) /\ ScriptExists(fs, extraction)

C16_ResolvedAfterDownloadOnly ==
    /\ []C16_ResolutionState
    /\ [][(spc \in {"extraction", "install", "final"} /\ spc' # "idle")
              => extraction' = extraction]_vars
    /\ [][(spc = "final" /\ ScriptExists(fs, extraction))
              => (spc' = "returned" /\ result' = Ok(extraction))]_vars

\* The download unpacked no script, the install that followed built it, and
\* the invocation returned it with the candidates resolved last before the
\* install.
C16_Witness ==
    /\ spc = "returned"
    /\ trace = <<"download", "install:.", "return">>
    /\ resolvedAt = 1
    /\ ~entry.installed

----------------------------------------------------------------------------
\* The number of archive downloads the invocation has started.
Downloads == Cardinality({i \in DOMAIN trace : trace[i] = "download"})

\* The invocation is past the point where it decides on the download.
PastDownloadDecision ==
    \/ spc \in {"extraction", "install", "final", "returned"}
    \/ spc = "failed" /\ result.err \in {"DownloadFailed", "MissingExtraction",
                                         "MissingInstallDir", "InstallFailed",
                                         "MissingCompileDir", "CompileFailed",
                                         "EntryPointNotFound"}

\* C17: an invocation downloads the archive at most once, and downloads it
\* exactly when, at its entry, no candidate had the script and the primary
\* extraction directory did not exist; when the primary extraction directory
\* existed without a script under any candidate, nothing is downloaded and
\* the invocation goes on to the installs and the compile in that directory.
C17_DownloadDecision ==
    /\ Downloads <= 1
    /\ Downloads = 1 => (~entry.installed /\ ~entry.fs.tree[Primary].dir)
    /\ PastDownloadDecision
          => (Downloads = 1 <=> (~entry.installed /\ ~entry.fs.tree[Primary].dir))
    /\ (PastDownloadDecision /\ ~entry.installed /\ entry.fs.tree[Primary].dir)
          => /\ Downloads = 0
             /\ extraction = Primary
             /\ result.err \notin {"DownloadFailed", "MissingExtraction"}

\* The primary extraction directory was there without the script: no
\* download, and the install and the compile in it produced the script.
C17_Witness ==
    /\ spc = "returned"
    /\ ~entry.installed
    /\ entry.fs.tree[Primary].dir
    /\ trace = <<"install:.", "compile", "return">>
    /\ result = Ok(Primary)

----------------------------------------------------------------------------
\* The invocation has entered the install loop.
InLoopOrPast ==
    \/ spc \in {"install", "final", "returned"}
    \/ spc = "failed" /\ result.err \in {"MissingInstallDir", "InstallFailed",
                                         "MissingCompileDir", "CompileFailed",
                                         "EntryPointNotFound"}

\* node_modules of an install directory as the invocation found it: only
\* the install in that directory writes to it.
NmFound(rel) == entry.fs.tree[extraction].nm[rel]

\* The place of an install event's directory in npmInstallDirs.
PlaceOf(event) ==
    CHOOSE k \in 1..Len(desc.npmInstallDirs) :
        InstallEvent(desc.npmInstallDirs[k]) = event

IsInstallEvent(event) == event \in {"install:.", "install:sub"}

\* C18: the install loop takes npmInstallDirs in list order; a directory that
\* does not exist ends the invocation with MissingInstallDir; npm install is
\* run in a directory exactly when its node_modules is absent or empty, and a
\* directory with a non-empty node_modules is passed over without a command.
C18_InstallDecision ==
    InLoopOrPast =>
        /\ \A k \in 1..Len(desc.npmInstallDirs) :
              LET rel == desc.npmInstallDirs[k]
                  ran == \E i \in DOMAIN trace : trace[i] = InstallEvent(rel)
              IN
              /\ k < idx
                    => /\ IsDir(fs, extraction, rel)
                       /\ ran <=> NmFound(rel) \in {"absent", "empty"}
              /\ (k = idx /\ spc = "install") => ~ran
              /\ (k = idx /\ result.err = "MissingInstallDir")
                    => (~IsDir(fs, extraction, rel) /\ ~ran)
              /\ (k = idx /\ result.err = "InstallFailed")
                    => (ran /\ NmFound(rel) \in {"absent", "empty"})
              /\ k > idx => ~ran
        /\ result.err = "MissingInstallDir" => idx \in 1..Len(desc.npmInstallDirs)
        /\ \A i, j \in DOMAIN trace :
              (i < j /\ IsInstallEvent(trace[i]) /\ IsInstallEvent(trace[j]))
                 => PlaceOf(trace[i]) < PlaceOf(trace[j])

\* Two install directories, the first with an empty node_modules and the
\* second with a populated one: one install, in the first.
C18_Witness ==
    /\ spc = "returned"
    /\ ~entry.installed
    /\ desc.npmInstallDirs = <<"sub", ".">>
    /\ NmFound("sub") = "empty"
    /\ NmFound(".") = "nonempty"
    /\ trace = <<"install:sub", "return">>

\* Two install directories both in need of an install: one after the other
\* in list order.
C18_WitnessOrder ==
    /\ spc = "returned"
    /\ desc.npmInstallDirs = <<"sub", ".">>
    /\ trace = <<"download", "install:sub", "install:.", "return">>

----------------------------------------------------------------------------
\* C19: an npm install that exits non-zero ends the invocation with the
\* install error, which names the directory of that install and holds the
\* exit code; that install is the last thing the invocation did: no later
\* install directory is processed, no compile is run and no launch command
\* is returned.
C19_InstallFailureFatal ==
    /\ (cmd.kind = "npm" /\ cmd.exit # 0)
          => (spc = "failed" /\ result.err = "InstallFailed")
    /\ result.err = "InstallFailed"
          => /\ spc = "failed"
             /\ result.kind = "error" /\ result.script = 0 /\ launch = 0
             /\ idx \in 1..Len(desc.npmInstallDirs)
             /\ result.dir = desc.npmInstallDirs[idx]
             /\ cmd = [kind |-> "npm", cwd |-> result.dir, exit |-> result.exit]
             /\ result.exit # 0
             /\ trace # <<>>
             /\ trace[Len(trace)] = InstallEvent(result.dir)
             /\ \A i \in DOMAIN trace :
                   /\ trace[i] \notin {"compile", "return"}
                   /\ \A k \in (idx + 1)..Len(desc.npmInstallDirs) :
                         trace[i] # InstallEvent(desc.npmInstallDirs[k])

\* The install in the first of two directories exits with code 2; the
\* second directory, which needs an install too, is left alone.
C19_Witness ==
    /\ spc = "failed"
    /\ desc.npmInstallDirs = <<".", "sub">>
    /\ desc.compileCommand
    /\ result = CommandError("InstallFailed", ".", 2)
    /\ NmFound("sub") = "empty"
    /\ fs.tree[extraction].nm["sub"] = "empty"
    /\ trace = <<"install:.">>

----------------------------------------------------------------------------
\* The number of compile command runs of the invocation.
Compiles == Cardinality({i \in DOMAIN trace : trace[i] = "compile"})

\* What holds of the compile step in every state.
C20_CompileState ==
    /\ Compiles <= 1
    /\ Compiles = 1
          => /\ desc.compileCommand
             /\ cmd.kind = "compile"
             /\ cmd.cwd = desc.compileWorkingDirectory
             /\ IsDir(fs, extraction, desc.compileWorkingDirectory)
             /\ trace[Len(trace)] \in {"compile", "return"}
    /\ cmd.kind = "compile" => Compiles = 1
    /\ result.err = "MissingCompileDir"
          => /\ spc = "failed"
             /\ desc.compileCommand
             /\ ~IsDir(fs, extraction, desc.compileWorkingDirectory)
             /\ Compiles = 0
             /\ cmd.kind # "compile"
             /\ launch = 0
    /\ (cmd.kind = "compile" /\ cmd.exit # 0)
          => /\ spc = "failed"
             /\ result = CommandError("CompileFailed",
                                      desc.compileWorkingDirectory, cmd.exit)
             /\ launch = 0
             /\ \A i \in DOMAIN trace : trace[i] # "return"
    /\ result.err = "CompileFailed" => (cmd.kind = "compile" /\ cmd.exit # 0)

\* C20: once the install loop is over, the compile command is run exactly
\* when the script is still missing and the descriptor sets compileCommand
\* (and its working directory exists); it is run at most once and in
\* compileWorkingDirectory; when that directory is absent the invocation
\* fails with MissingCompileDir and runs nothing; a non-zero exit fails with
\* CompileFailed and no launch command is returned.
C20_CompileStep ==
    /\ []C20_CompileState
    /\ [][(spc = "install" /\ idx > Len(desc.npmInstallDirs) /\ spc' # "install")
            => /\ trace' = Append(trace, "compile")
                    <=> /\ ~ScriptExists(fs, extraction)
                        /\ desc.compileCommand
                        /\ IsDir(fs, extraction, desc.compileWorkingDirectory)
               /\ result'.err = "MissingCompileDir"
                    <=> /\ ~ScriptExists(fs, extraction)
                        /\ desc.compileCommand
                        /\ ~IsDir(fs, extraction, desc.compileWorkingDirectory)
               /\ trace' # trace => trace' = Append(trace, "compile")]_vars
    /\ [][trace' # trace /\ trace' # <<>> /\ trace'[Len(trace')] = "compile"
            => (spc = "install" /\ idx > Len(desc.npmInstallDirs))]_vars

\* The installs left the script missing and the compile command, run in the
\* directory "sub", wrote it.
C20_Witness ==
    /\ spc = "returned"
    /\ desc.compileWorkingDirectory = "sub"
    /\ cmd = [kind |-> "compile", cwd |-> "sub", exit |-> 0]
    /\ trace = <<"install:.", "compile", "return">>
    /\ ~entry.installed

----------------------------------------------------------------------------
\* C21: an invocation that follows one that failed because npm install
\* exited non-zero in a directory returns a launch command only after it has
\* run the install in that directory again, whatever the failed install left
\* in node_modules.
C21_FailedInstallRetried ==
    (call >= 2 /\ prev.result.err = "InstallFailed" /\ spc = "returned")
        => \E i \in DOMAIN trace : trace[i] = InstallEvent(prev.result.dir)

\* The same for a failed install that left node_modules as it found it,
\* absent or empty: the next invocation installs there again.
RetriedWhenNothingLeft ==
    (call >= 2 /\ prev.result.err = "InstallFailed" /\ spc = "returned"
        /\ NmFound(prev.result.dir) \in {"absent", "empty"})
        => \E i \in DOMAIN trace : trace[i] = InstallEvent(prev.result.dir)

----------------------------------------------------------------------------
\* DiagnosticSeverity of the Language Server Protocol.
LspSeverityName(code) ==
    CASE code = 1 -> "Error"
      [] code = 2 -> "Warning"
      [] code = 3 -> "Info"
      [] code = 4 -> "Hint"
      [] OTHER -> "none"

\* The latest loop iteration has logged the detail line of the entry it read.
DetailJustLogged ==
    /\ diag.phase \in {"details", "done"}
    /\ Len(diag.lines) >= 2
    /\ diag.last.has

\* C22: the detail line of a diagnostic names its severity by the code of the
\* Language Server Protocol (1 Error, 2 Warning, 3 Info, 4 Hint); a code out
\* of that range gets one of the four names; the handler fails for no
\* integer severity.
C22_SeverityNaming ==
    /\ diag.phase # "failed"
    /\ DetailJustLogged
          => LET name == diag.lines[Len(diag.lines)].name IN
             /\ name \in {"Error", "Warning", "Info", "Hint"}
             /\ diag.last.code \in 1..4 => name = LspSeverityName(diag.last.code)

\* What the lookup does: a code of 3 or more is named Hint, 0, 1 and 2 are
\* named Error, Warning and Info, -1 to -4 count from the end of the list,
\* and a code of -5 or less makes the handler fail; a missing severity is
\* read as 1.
SeverityNamingAsCoded ==
    /\ diag.phase = "failed" => (diag.last.has /\ diag.last.code <= -5)
    /\ (diag.phase \in {"details", "done"} /\ Len(diag.lines) >= 2)
          => LET name == diag.lines[Len(diag.lines)].name
                 code == IF diag.last.has THEN diag.last.code ELSE 1
             IN
             /\ code >= -4
             /\ code >= 3 => name = "Hint"
             /\ code \in 0..2 => name = SeverityNames[code + 1]
             /\ code \in -4..-1 => name = SeverityNames[code + 5]

----------------------------------------------------------------------------
\* C23: whenever a server process is running, the handlers of
\* window/logMessage, $/progress and textDocument/publishDiagnostics are all
\* registered: the registrations come before the spawn, so a notification
\* the server sends right after it starts finds its handler.
C23_HandlersBeforeProcess ==
    (\E i \in DOMAIN procs : procs[i] = "running")
        => {"window/logMessage", "$/progress",
            "textDocument/publishDiagnostics"} \subseteq handlers

\* The process of the first start has just been spawned and initialize has
\* not been sent yet.
C23_Witness ==
    /\ starts = 1
    /\ pc = "initializing"
    /\ Running
    /\ log = <<"spawn">>
    /\ Cardinality(handlers) = 3

----------------------------------------------------------------------------
\* C24: on a host where node or npm is not on PATH the invocation fails with
\* the error of the missing tool and has done nothing by then: no directory
\* created, nothing downloaded, no command run, no launch command, and the
\* filesystem is the one the invocation found, whether or not the script is
\* already installed.
C24_MissingTools ==
    (~env.node \/ ~env.npm)
        => /\ fs = entry.fs
           /\ trace = <<>>
           /\ cmd = NoCmd
           /\ launch = 0
           /\ spc \in {"idle", "failed"}
           /\ spc = "failed"
                 => result = Error(IF ~env.node THEN "NodeNotFound"
                                   ELSE "NpmNotFound")

\* npm is missing on a host where the script is installed and the install
\* directory has no node_modules yet.
C24_Witness ==
    /\ spc = "failed"
    /\ result.err = "NpmNotFound"
    /\ env.node
    /\ entry.installed
    /\ desc.npmInstallDirs = <<".">>
    /\ fs.tree[Primary].nm["."] = "absent"

\* node is missing on a host with an empty disk.
C24_WitnessColdCache ==
    /\ spc = "failed"
    /\ result.err = "NodeNotFound"
    /\ ~fs.root
    /\ call = 2

====
